---- MODULE Spec2Model ----
(***************************************************************************)
(* A model of airline.py: the FlightInfo record, the AirlineRegistry       *)
(* metaclass (class registration, one-time instantiation, fan-out), the    *)
(* AirlineBase orchestration (request_all / request_single), the row       *)
(* extraction of the three adapters (Southwest, JetBlue, United) and the   *)
(* Weekender filter with its cachetools.ttl_cache.                         *)
(*                                                                         *)
(* Python values that the code may put in the wrong slot are tagged        *)
(* (<<"date", d>>, <<"bool", 0/1>>, <<"int", n>>, <<"None", 0>>) so that    *)
(* values of different Python types are comparable.  Times of day are      *)
(* <<hour, minute>> pairs.  Text is a sequence of characters ("NL", "CR"    *)
(* and "TAB" stand for the control characters).                            *)
(***************************************************************************)
EXTENDS Integers, Sequences, FiniteSets, TLC

\* ------------------------------------------------------------------ bounds
\* query dates are day numbers 0 .. MaxDate-1 (date + timedelta(days=1) is d+1)
MaxDate == 1
\* the clock of the cache's timer runs from 0 to MaxClock
MaxClock == 3
\* number of Weekender objects the program creates
MaxWeekenders == 1
\* number of threads that call instantiate concurrently
MaxThreads == 2
\* number of instantiate calls each thread makes
MaxCalls == 2
\* cachetools.ttl_cache() defaults are ttl=600 seconds and maxsize=128
\* entries; the model counts the time-to-live in clock ticks and scales the
\* capacity down so that the key space can exceed it.
CacheTTL == 2
CacheMaxSize == 2

\* ------------------------------------------------------------ Python values
PyBool(b) == <<"bool", IF b THEN 1 ELSE 0>>
PyDate(d) == <<"date", d>>
PyInt(n) == <<"int", n>>
PyNone == <<"None", 0>>

\* Body applied to the value of an expression that is evaluated once (a local
\* variable of the code)
With(value, Body(_)) == CHOOSE result \in {Body(v) : v \in {value}} : TRUE

\* results of a call: a value, or an exception that propagates
Ok(v) == [kind |-> "ok", val |-> v, exc |-> "-"]
Raise(e) == [kind |-> "raise", val |-> <<>>, exc |-> e]
\* the call returned None
ReturnNone == [kind |-> "none", val |-> <<>>, exc |-> "-"]

\* util.flatten: one level of list concatenation
RECURSIVE flatten(_)
flatten(ls) == IF ls = <<>> THEN <<>> ELSE Head(ls) \o flatten(Tail(ls))

\* namedtuple("FlightInfo", [...]): the constructor binds positionally
FlightInfo(a1, a2, a3, a4, a5, a6, a7, a8) ==
  [origin |-> a1, destination |-> a2, early |-> a3, depart_date |-> a4,
   depart_time |-> a5, arrive_time |-> a6, flight_no |-> a7, fare |-> a8]

\* ------------------------------------------------------------------- text
Digits == {"0", "1", "2", "3", "4", "5", "6", "7", "8", "9"}
DigitVal(c) == CASE c = "0" -> 0 [] c = "1" -> 1 [] c = "2" -> 2 [] c = "3" -> 3
                 [] c = "4" -> 4 [] c = "5" -> 5 [] c = "6" -> 6 [] c = "7" -> 7
                 [] c = "8" -> 8 [] c = "9" -> 9

\* str.strip(chars)
RECURSIVE LStrip(_, _)
LStrip(s, chars) == IF s # <<>> /\ Head(s) \in chars THEN LStrip(Tail(s), chars) ELSE s
RECURSIVE RStrip(_, _)
RStrip(s, chars) == IF s # <<>> /\ s[Len(s)] \in chars
                    THEN RStrip(SubSeq(s, 1, Len(s) - 1), chars) ELSE s
Strip(s, chars) == RStrip(LStrip(s, chars), chars)

\* int(text): surrounding whitespace is ignored, then an unsigned decimal
\* numeral is required (the texts of the model carry no sign or underscore);
\* anything else is a ValueError
Whitespace == {" ", "NL", "CR", "TAB"}
RECURSIVE DecVal(_)
DecVal(s) == IF s = <<>> THEN 0 ELSE 10 * DecVal(SubSeq(s, 1, Len(s) - 1)) + DigitVal(s[Len(s)])
PyIntOf(text) ==
  LET s == Strip(text, Whitespace)
  IN IF s # <<>> /\ \A i \in 1..Len(s) : s[i] \in Digits
     THEN Ok(DecVal(s)) ELSE Raise("ValueError")

\* re.search("\$(\d+)", text): group 1 of the leftmost match, or no match
RECURSIVE DigitRun(_)
DigitRun(s) == IF s # <<>> /\ Head(s) \in Digits THEN <<Head(s)>> \o DigitRun(Tail(s)) ELSE <<>>
RECURSIVE FareSearch(_)
FareSearch(s) ==
  IF s = <<>> THEN <<>>
  ELSE IF Head(s) = "$" /\ DigitRun(Tail(s)) # <<>> THEN DigitRun(Tail(s))
  ELSE FareSearch(Tail(s))

\* -------------------------------------------------------------- time of day
\* operator.gt / operator.lt on datetime.time compare (hour, minute) in order
\* mutant: operator.ge in place of operator.gt
TimeGtMut(a, b) == a[1] > b[1] \/ (a[1] = b[1] /\ a[2] >= b[2])
TimeGt(a, b) == a[1] > b[1] \/ (a[1] = b[1] /\ a[2] > b[2])
TimeLt(a, b) == a[1] < b[1] \/ (a[1] = b[1] /\ a[2] < b[2])
ApplyCmp(cmp, a, b) == IF cmp = "gt" THEN TimeGt(a, b) ELSE TimeLt(a, b)

\* ------------------------------------------------------ configuration files
\* Two config.ini contents.  A section per adapter class holds the origins and
\* destinations (the comma-separated list, already split), the general section
\* the two HH:MM bounds (hour and minute as numbers).
Configs == {"c1", "c2"}
ConfigOrigins(config, name) ==
  CASE name = "Southwest" -> IF config = "c1" THEN <<"SFO", "OAK">> ELSE <<"SJC", "SFO">>
    [] name = "JetBlue" -> <<"SFO">>
    [] name = "United" -> IF config = "c1" THEN <<"SFO">> ELSE <<"OAK">>
ConfigDestinations(config, name) ==
  CASE name = "Southwest" -> IF config = "c1" THEN <<"LAX">> ELSE <<"LAX", "SAN">>
    [] name = "JetBlue" -> <<"LGB">>
    [] name = "United" -> IF config = "c1" THEN <<"LAX", "ONT">> ELSE <<"LAX">>
ConfigLeaveAfter(config) == IF config = "c1" THEN <<17, 0>> ELSE <<16, 0>>
ConfigLeaveBefore(config) == IF config = "c1" THEN <<12, 0>> ELSE <<9, 15>>

\* ------------------------------------------------------------ result rows
\* One row element of a provider's result page: the number of top-level td
\* cells (Southwest), the departure and arrival time (well formed, held as
\* parsed), the flight number text, whether the fare button exists (United)
\* and the fare text.
Row(n, dep, arr, flight, button, fare) ==
  [cols |-> n, dep |-> dep, arr |-> arr, flight |-> flight, button |-> button, fare |-> fare]

swFull == Row(8, <<18, 30>>, <<20, 0>>, "101", FALSE, <<"$", "1", "2", "0">>)
swShort == Row(7, <<16, 0>>, <<17, 30>>, "102", FALSE, <<>>)
swPadded == Row(8, <<17, 0>>, <<18, 30>>, "103", FALSE, <<" ", "$", "9", "9", "NL">>)
swMorning == Row(8, <<9, 15>>, <<10, 45>>, "104", FALSE, <<"$", "8", "0">>)
swAfternoon == Row(8, <<16, 0>>, <<17, 30>>, "105", FALSE, <<"$", "6", "0">>)
swSoldOut == Row(8, <<18, 30>>, <<20, 0>>, "106", FALSE, <<>>)
swJunk == Row(8, <<18, 30>>, <<20, 0>>, "107", FALSE, <<"S">>)
jbNoon == Row(0, <<12, 0>>, <<13, 20>>, "201", FALSE, <<"$", "7", "5">>)
jbEvening == Row(0, <<19, 45>>, <<21, 5>>, "202", FALSE, <<" ", "CR", "$", "8", "8", " ">>)
jbMorning == Row(0, <<11, 59>>, <<13, 20>>, "203", FALSE, <<"$", "7", "0">>)
jbSoldOut == Row(0, <<10, 0>>, <<11, 20>>, "204", FALSE, <<>>)
uaEvening == Row(0, <<17, 1>>, <<18, 20>>, "301", TRUE, <<"S", " ", "$", "1", "5", "0">>)
uaMorning == Row(0, <<8, 5>>, <<9, 20>>, "302", TRUE, <<"$", "2", "0", "0", " ", "S">>)
uaNoPrice == Row(0, <<8, 5>>, <<9, 20>>, "303", TRUE, <<"S">>)
uaNoButton == Row(0, <<8, 5>>, <<9, 20>>, "304", FALSE, <<>>)

Rows == {swFull, swShort, swPadded, swMorning, swAfternoon, swSoldOut, swJunk,
         jbNoon, jbEvening, jbMorning, jbSoldOut,
         uaEvening, uaMorning, uaNoPrice, uaNoButton}

\* The provider sites: what each provider's result page holds for a query, in
\* three versions of the world ("bad": JetBlue lists a flight without a fare).
Worlds == {"A", "B", "bad"}
SiteRows(world, name, origin, destination, date) ==
  CASE name = "Southwest" ->
         IF world = "B" THEN <<swAfternoon, swSoldOut>>
         ELSE IF origin = "SFO" THEN <<swFull, swShort, swPadded, swAfternoon>>
         ELSE <<swMorning>>
    [] name = "JetBlue" ->
         IF world = "A" THEN <<jbNoon, jbEvening>>
         ELSE IF world = "B" THEN <<jbMorning>>
         ELSE <<jbEvening, jbSoldOut>>
    [] name = "United" ->
         IF world = "B" THEN <<uaMorning>>
         ELSE IF destination = "ONT" THEN <<>>
         ELSE <<uaEvening>>

\* --------------------------------------------------------------- adapters
Prefix(name) == CASE name = "Southwest" -> "WN" [] name = "JetBlue" -> "B6"
                  [] name = "United" -> "UA"

\* Southwest._col_fare
SouthwestColFare(row) ==
  LET fare == Strip(row.fare, {" ", "NL", "TAB", "$"})
  IN IF fare = <<>> THEN Ok(PyNone)
     ELSE IF PyIntOf(fare).kind = "raise" THEN PyIntOf(fare)
     ELSE Ok(PyInt(PyIntOf(fare).val))

\* Southwest.extract_row_to_flightinfo
SouthwestExtract(row, origin, destination, date, early) ==
  IF row.cols < 8 THEN ReturnNone
  ELSE LET fare == SouthwestColFare(row)
       IN IF fare.kind = "raise" THEN fare
          ELSE LET fi == FlightInfo(origin, destination, PyDate(date), PyBool(early),
                                    row.dep, row.arr, <<Prefix("Southwest"), row.flight>>, fare.val)
               IN IF fi.fare = PyNone THEN ReturnNone ELSE Ok(fi)

\* JetBlue.extract_row_to_flightinfo
JetBlueExtract(row, origin, destination, date, early) ==
  LET fare == PyIntOf(Strip(row.fare, {" ", "CR", "NL", "TAB", "$"}))
  IN IF fare.kind = "raise" THEN fare
     ELSE Ok(FlightInfo(origin, destination, PyDate(date), PyBool(early),
                        row.dep, row.arr, <<Prefix("JetBlue"), row.flight>>, PyInt(fare.val)))

\* United.extract_row_to_flightinfo
UnitedExtract(row, origin, destination, date, early) ==
  IF ~row.button THEN Raise("IndexError")
  ELSE IF FareSearch(row.fare) = <<>> THEN Raise("AttributeError")
  ELSE Ok(FlightInfo(origin, destination, PyDate(date), PyBool(early),
                     row.dep, row.arr, <<Prefix("United"), row.flight>>,
                     PyInt(PyIntOf(FareSearch(row.fare)).val)))

extract_row_to_flightinfo(name, row, origin, destination, date, early) ==
  CASE name = "Southwest" -> SouthwestExtract(row, origin, destination, date, early)
    [] name = "JetBlue" -> JetBlueExtract(row, origin, destination, date, early)
    [] name = "United" -> UnitedExtract(row, origin, destination, date, early)

\* ------------------------------------------------------------ AirlineBase
\* an adapter instance: its class, the config it was constructed with and its
\* identity (the ordinal of its construction)
Airline(name, config, id) == [cls |-> name, config |-> config, id |-> id]

\* [extract_row_to_flightinfo(row, ...) for row in rows]: the first exception
\* ends the comprehension
RECURSIVE ExtractAll(_, _, _, _, _, _)
ExtractAll(name, rows, origin, destination, date, early) ==
  IF rows = <<>> THEN Ok(<<>>)
  ELSE With(extract_row_to_flightinfo(name, Head(rows), origin, destination, date, early),
            LAMBDA r :
              IF r.kind = "raise" THEN r
              ELSE With(ExtractAll(name, Tail(rows), origin, destination, date, early),
                        LAMBDA rest :
                          IF rest.kind = "raise" THEN rest ELSE Ok(<<r>> \o rest.val)))

\* [fi for fi in flightinfos if fi is not None]
RECURSIVE NotNone(_)
NotNone(rs) ==
  IF rs = <<>> THEN <<>>
  ELSE IF Head(rs).kind = "none" THEN NotNone(Tail(rs))
  ELSE <<Head(rs).val>> \o NotNone(Tail(rs))

\* AirlineBase.request_single; netfail: the network exchange of
\* _request_single raises
request_single(airline, origin, destination, date, early, world, netfail) ==
  IF netfail THEN Raise("ConnectionError")
  ELSE With(SiteRows(world, airline.cls, origin, destination, date), LAMBDA rows :
         With(ExtractAll(airline.cls, rows, origin, destination, date, early),
              LAMBDA flightinfos :
                IF flightinfos.kind = "raise" THEN flightinfos
                ELSE Ok(NotNone(flightinfos.val))))

\* itertools.product(xs, ys)
RECURSIVE product(_, _)
product(xs, ys) ==
  IF xs = <<>> THEN <<>>
  ELSE [j \in 1..Len(ys) |-> <<Head(xs), ys[j]>>] \o product(Tail(xs), ys)

\* what a fan-out returns: the outcome, the request_single calls it issued
\* (with what each returned) and the adapters whose request_all it invoked
Outcome(kind, val, exc, calls, acalls) ==
  [kind |-> kind, val |-> val, exc |-> exc, calls |-> calls, acalls |-> acalls]

\* the comprehension of AirlineBase.request_all over the pairs; issued counts
\* the network exchanges made earlier in the same top-level call, failAt is
\* the ordinal of the exchange that fails (0: none)
RECURSIVE RequestPairs(_, _, _, _, _, _, _)
RequestPairs(airline, pairs, date, early, world, failAt, issued) ==
  IF pairs = <<>> THEN Outcome("ok", <<>>, "-", <<>>, <<>>)
  ELSE With(request_single(airline, Head(pairs)[1], Head(pairs)[2], date, early, world,
                           issued + 1 = failAt),
            LAMBDA r :
              LET call == [id |-> airline.id, origin |-> Head(pairs)[1],
                           destination |-> Head(pairs)[2], date |-> date, early |-> early,
                           kind |-> r.kind, returned |-> r.val]
              IN IF r.kind = "raise" THEN Outcome("raise", <<>>, r.exc, <<call>>, <<>>)
                 ELSE With(RequestPairs(airline, Tail(pairs), date, early, world,
                                        failAt, issued + 1),
                           LAMBDA rest :
                             IF rest.kind = "raise"
                             THEN Outcome("raise", <<>>, rest.exc, <<call>> \o rest.calls,
                                          <<>>)
                             ELSE Outcome("ok", <<r.val>> \o rest.val, "-",
                                          <<call>> \o rest.calls, <<>>)))

\* mutant: the product is not swapped when reverse is set
airline_request_allMut(airline, date, reverse, early, world, failAt, issued) ==
  LET origins == ConfigOrigins(airline.config, airline.cls)
      destinations == ConfigDestinations(airline.config, airline.cls)
      pairs == product(origins, destinations)
  IN With(RequestPairs(airline, pairs, date, early, world, failAt, issued),
          LAMBDA results :
            IF results.kind = "raise" THEN results
            ELSE Outcome("ok", flatten(results.val), "-", results.calls, <<>>))

\* AirlineBase.request_all
airline_request_all(airline, date, reverse, early, world, failAt, issued) ==
  LET origins == ConfigOrigins(airline.config, airline.cls)
      destinations == ConfigDestinations(airline.config, airline.cls)
      pairs == IF reverse THEN product(destinations, origins)
               ELSE product(origins, destinations)
  IN With(RequestPairs(airline, pairs, date, early, world, failAt, issued),
          LAMBDA results :
            IF results.kind = "raise" THEN results
            ELSE Outcome("ok", flatten(results.val), "-", results.calls, <<>>))

\* -------------------------------------------------------- AirlineRegistry
\* mutant: an adapter that raises is skipped and the fan-out goes on
RECURSIVE RequestAirlinesMut(_, _, _, _, _, _, _)
RequestAirlinesMut(as, date, reverse, early, world, failAt, issued) ==
  IF as = <<>> THEN Outcome("ok", <<>>, "-", <<>>, <<>>)
  ELSE With(airline_request_all(Head(as), date, reverse, early, world, failAt, issued),
            LAMBDA r :
              With(RequestAirlinesMut(Tail(as), date, reverse, early, world, failAt,
                                      issued + Len(r.calls)),
                   LAMBDA rest :
                     Outcome(rest.kind, <<r.val>> \o rest.val, rest.exc,
                             r.calls \o rest.calls,
                             <<[id |-> Head(as).id, kind |-> r.kind, returned |-> r.val]>>
                             \o rest.acalls)))

\* the comprehension of AirlineRegistry.request_all over cls.airlines
RECURSIVE RequestAirlines(_, _, _, _, _, _, _)
RequestAirlines(as, date, reverse, early, world, failAt, issued) ==
  IF as = <<>> THEN Outcome("ok", <<>>, "-", <<>>, <<>>)
  ELSE With(airline_request_all(Head(as), date, reverse, early, world, failAt, issued),
            LAMBDA r :
              LET acall == [id |-> Head(as).id, kind |-> r.kind, returned |-> r.val]
              IN IF r.kind = "raise" THEN Outcome("raise", <<>>, r.exc, r.calls, <<acall>>)
                 ELSE With(RequestAirlines(Tail(as), date, reverse, early, world,
                                           failAt, issued + Len(r.calls)),
                           LAMBDA rest :
                             IF rest.kind = "raise"
                             THEN Outcome("raise", <<>>, rest.exc, r.calls \o rest.calls,
                                          <<acall>> \o rest.acalls)
                             ELSE Outcome("ok", <<r.val>> \o rest.val, "-",
                                          r.calls \o rest.calls,
                                          <<acall>> \o rest.acalls)))

\* AirlineRegistry.request_all
registry_request_all(as, date, reverse, early, world, failAt, issued) ==
  With(RequestAirlines(as, date, reverse, early, world, failAt, issued),
       LAMBDA results :
         IF results.kind = "raise" THEN results
         ELSE Outcome("ok", flatten(results.val), "-", results.calls, results.acalls))

\* AirlineRegistry.request_single: the comprehension calls
\* airline.request_single(origin, destination, date) without the required
\* positional argument early, which is a TypeError at the first adapter
registry_request_single(as, origin, destination, date) ==
  IF as = <<>> THEN Outcome("ok", flatten(<<>>), "-", <<>>, <<>>)
  ELSE Outcome("raise", <<>>, "TypeError", <<>>, <<>>)

\* ---------------------------------------------------------------- Weekender
\* [fi for fi in result if cmp(fi.depart_time, filter_bound)]
RECURSIVE FilterBound(_, _, _)
FilterBound(result, cmp, filter_bound) ==
  IF result = <<>> THEN <<>>
  ELSE IF ApplyCmp(cmp, Head(result).depart_time, filter_bound)
       THEN <<Head(result)>> \o FilterBound(Tail(result), cmp, filter_bound)
       ELSE FilterBound(Tail(result), cmp, filter_bound)

\* Weekender.request; raw is what the registry returned before the filter
request(as, date, cmp, filter_bound, reverse, early, world, failAt, issued) ==
  With(registry_request_all(as, date, reverse, early, world, failAt, issued),
       LAMBDA result :
         [kind |-> result.kind,
          val |-> IF result.kind = "raise" THEN <<>>
                  ELSE FilterBound(result.val, cmp, filter_bound),
          exc |-> result.exc, calls |-> result.calls, acalls |-> result.acalls,
          raw |-> result.val])

\* the body of Weekender.request_with_next (what runs on a cache miss)
request_with_next(w, as, date, reverse, world, failAt) ==
  With(request(as, date, "gt", w.leave_after, reverse, FALSE, world, failAt, 0),
       LAMBDA day :
         IF day.kind = "raise"
         THEN [kind |-> "raise", val |-> <<>>, exc |-> day.exc, calls |-> day.calls,
               acalls |-> day.acalls, raw1 |-> <<>>, raw2 |-> <<>>]
         ELSE With(request(as, date + 1, "lt", w.leave_before, reverse, TRUE, world,
                           failAt, Len(day.calls)),
                   LAMBDA day_after :
                     IF day_after.kind = "raise"
                     THEN [kind |-> "raise", val |-> <<>>, exc |-> day_after.exc,
                           calls |-> day.calls \o day_after.calls,
                           acalls |-> day.acalls \o day_after.acalls,
                           raw1 |-> day.raw, raw2 |-> <<>>]
                     ELSE [kind |-> "ok", val |-> flatten(<<day.val, day_after.val>>),
                           exc |-> "-",
                           calls |-> day.calls \o day_after.calls,
                           acalls |-> day.acalls \o day_after.acalls,
                           raw1 |-> day.raw, raw2 |-> day_after.raw]))

\* ------------------------------------------------- cachetools.ttl_cache()
\* The cache is the list of its entries, least recently used first.  The key
\* is made of the arguments as passed: self, date, and reverse either
\* omitted or passed (the model passes it positionally; passing it by keyword
\* makes a third key of the same kind).
CallForms == {"omitted", "positional"}
CacheKey(wid, date, form, reverse) ==
  IF form = "omitted" THEN <<wid, date>> ELSE <<wid, date, form, reverse>>

\* mutant: the lookup ignores the expiry time
CacheFindMut(c, key, t) ==
  IF \E i \in 1..Len(c) : c[i].key = key
  THEN CHOOSE i \in 1..Len(c) : c[i].key = key
  ELSE 0

\* TTLCache.__getitem__: the position of the live entry of key, 0 if none
CacheFind(c, key, t) ==
  IF \E i \in 1..Len(c) : c[i].key = key /\ t < c[i].expires
  THEN CHOOSE i \in 1..Len(c) : c[i].key = key /\ t < c[i].expires
  ELSE 0

\* a hit moves the entry to the most-recently-used end
CacheTouch(c, i) == SubSeq(c, 1, i - 1) \o SubSeq(c, i + 1, Len(c)) \o <<c[i]>>

\* TTLCache.expire
CacheExpire(c, t) == SelectSeq(c, LAMBDA e : t < e.expires)

\* Cache.__setitem__ makes room by popitem: least recently used first
RECURSIVE CacheEvict(_)
CacheEvict(c) == IF Len(c) + 1 > CacheMaxSize THEN CacheEvict(Tail(c)) ELSE c

\* TTLCache.__setitem__
CacheSet(c, key, value, t) ==
  LET live == CacheExpire(c, t)
      others == SelectSeq(live, LAMBDA e : e.key # key)
      room == IF Len(others) = Len(live) THEN CacheEvict(live) ELSE others
  IN room \o <<[key |-> key, value |-> value, expires |-> t + CacheTTL]>>

\* -------------------------------------------------------------------- state
VARIABLES
  loaded,       \* number of class statements of the module executed so far
  classes,      \* AirlineRegistry.classes
  airlines,     \* AirlineRegistry.airlines
  done,         \* AirlineRegistry.done
  constructed,  \* number of adapter objects constructed so far
  world,        \* the version of the provider sites
  weekenders,   \* the Weekender objects created so far
  cache,        \* the cache of request_with_next
  now,          \* the cache's timer
  last,         \* the call made by the last step (NoCall if it made none)
  tpc,          \* per thread: where it is in instantiate
  tconfig,      \* per thread: the config argument of its instantiate call
  tlist,        \* per thread: the list its comprehension has built so far
  tcalls        \* per thread: number of instantiate calls it has made

vars == <<loaded, classes, airlines, done, constructed, world, weekenders, cache,
          now, last, tpc, tconfig, tlist, tcalls>>
registryVars == <<classes, airlines, done, constructed>>
threadVars == <<tpc, tconfig, tlist, tcalls>>
cacheVars == <<weekenders, cache, now>>

\* which network exchange of a call fails: none, the third (after another
\* adapter or pair has answered), or the seventh (in the second leg of
\* request_with_next)
FailPoints == {0, 3, 7}
Threads == 1..MaxThreads
Dates == 0..(MaxDate - 1)
AirportPairs == {<<"SFO", "LAX">>, <<"LAX", "SFO">>}

\* the class statements of the module, in order, with their bases
ClassStatements ==
  <<[name |-> "AirlineBase", bases |-> <<>>],
    [name |-> "Southwest", bases |-> <<"AirlineBase">>],
    [name |-> "JetBlue", bases |-> <<"AirlineBase">>],
    [name |-> "United", bases |-> <<"AirlineBase">>]>>

\* the record of a call: the operation, its arguments, whether the cache
\* answered it, and its outcome
Call(op, args, hit, out, raw1, raw2) ==
  [op |-> op, args |-> args, hit |-> hit, kind |-> out.kind, val |-> out.val,
   exc |-> out.exc, calls |-> out.calls, acalls |-> out.acalls,
   raw1 |-> raw1, raw2 |-> raw2]
NoCall == Call("none", <<>>, FALSE, Outcome("ok", <<>>, "-", <<>>, <<>>), <<>>, <<>>)

InitCommon ==
  /\ airlines = <<>>
  /\ done = FALSE
  /\ constructed = 0
  /\ world = "A"
  /\ weekenders = <<>>
  /\ cache = <<>>
  /\ now = 0
  /\ last = NoCall
  /\ tpc = [t \in Threads |-> "idle"]
  /\ tconfig = [t \in Threads |-> "c1"]
  /\ tlist = [t \in Threads |-> <<>>]
  /\ tcalls = [t \in Threads |-> 0]

\* the state when the import of the module starts
Init ==
  /\ loaded = 0
  /\ classes = <<>>
  /\ InitCommon

\* ------------------------------------------------------------------ actions
\* mutant: __new__ registers every class, the base included
DefineClassMut ==
  /\ loaded < Len(ClassStatements)
  /\ loaded' = loaded + 1
  /\ classes' = Append(classes, ClassStatements[loaded + 1].name)
  /\ last' = NoCall
  /\ UNCHANGED <<airlines, done, constructed, world>>
  /\ UNCHANGED cacheVars
  /\ UNCHANGED threadVars

\* the next class statement runs AirlineRegistry.__new__(name, bases, attrs)
DefineClass ==
  /\ loaded < Len(ClassStatements)
  /\ loaded' = loaded + 1
  /\ classes' = IF ClassStatements[loaded + 1].bases # <<>>
                THEN Append(classes, ClassStatements[loaded + 1].name)
                ELSE classes
  /\ last' = NoCall
  /\ UNCHANGED <<airlines, done, constructed, world>>
  /\ UNCHANGED cacheVars
  /\ UNCHANGED threadVars

\* [airline(config) for airline in cls.classes]
NewAirlines(config, first) ==
  [i \in 1..Len(classes) |-> Airline(classes[i], config, first + i)]

\* mutant: instantiate without the done check
InstantiateMut(config) ==
  /\ loaded = Len(ClassStatements)
  /\ airlines' = NewAirlines(config, constructed)
  /\ constructed' = constructed + Len(classes)
  /\ done' = TRUE
  /\ last' = Call("instantiate", [config |-> config, wasDone |-> done], FALSE,
                  Outcome("ok", <<>>, "-", <<>>, <<>>), <<>>, <<>>)
  /\ UNCHANGED <<loaded, classes, world>>
  /\ UNCHANGED cacheVars
  /\ UNCHANGED threadVars

\* AirlineRegistry.instantiate(config), called from one thread
Instantiate(config) ==
  /\ loaded = Len(ClassStatements)
  /\ IF done
     THEN UNCHANGED <<airlines, done, constructed>>
     ELSE /\ airlines' = NewAirlines(config, constructed)
          /\ constructed' = constructed + Len(classes)
          /\ done' = TRUE
  /\ last' = Call("instantiate", [config |-> config, wasDone |-> done], FALSE,
                  Outcome("ok", <<>>, "-", <<>>, <<>>), <<>>, <<>>)
  /\ UNCHANGED <<loaded, classes, world>>
  /\ UNCHANGED cacheVars
  /\ UNCHANGED threadVars

\* the provider sites change
WorldChange(w) ==
  /\ loaded = Len(ClassStatements)
  /\ w # world
  /\ world' = w
  /\ last' = NoCall
  /\ UNCHANGED loaded
  /\ UNCHANGED registryVars
  /\ UNCHANGED cacheVars
  /\ UNCHANGED threadVars

\* AirlineRegistry.request_all(date, reverse, early)
RegistryRequestAll(date, reverse, early, failAt) ==
  /\ loaded = Len(ClassStatements)
  /\ \E out \in {registry_request_all(airlines, date, reverse, early, world, failAt, 0)} :
       last' = Call("registry.request_all",
                    [date |-> date, reverse |-> reverse, early |-> early,
                     failAt |-> failAt],
                    FALSE, out, <<>>, <<>>)
  /\ UNCHANGED <<loaded, world>>
  /\ UNCHANGED registryVars
  /\ UNCHANGED cacheVars
  /\ UNCHANGED threadVars

\* AirlineRegistry.request_single(origin, destination, date)
RegistryRequestSingle(origin, destination, date) ==
  /\ loaded = Len(ClassStatements)
  /\ last' = Call("registry.request_single",
                  [origin |-> origin, destination |-> destination, date |-> date],
                  FALSE,
                  registry_request_single(airlines, origin, destination, date),
                  <<>>, <<>>)
  /\ UNCHANGED <<loaded, world>>
  /\ UNCHANGED registryVars
  /\ UNCHANGED cacheVars
  /\ UNCHANGED threadVars

\* airline.request_all(date, reverse, early) on the i-th adapter instance
AirlineRequestAll(i, date, reverse, early, failAt) ==
  /\ i \in 1..Len(airlines)
  /\ \E out \in {airline_request_all(airlines[i], date, reverse, early, world, failAt, 0)} :
       last' = Call("airline.request_all",
                    [airline |-> airlines[i], date |-> date, reverse |-> reverse,
                     early |-> early, failAt |-> failAt],
                    FALSE, out, <<>>, <<>>)
  /\ UNCHANGED <<loaded, world>>
  /\ UNCHANGED registryVars
  /\ UNCHANGED cacheVars
  /\ UNCHANGED threadVars

\* extract_row_to_flightinfo(row, origin, destination, date, early) of the
\* adapter class name
ExtractRow(name, row, origin, destination, date, early) ==
  /\ loaded = Len(ClassStatements)
  /\ LET r == extract_row_to_flightinfo(name, row, origin, destination, date, early)
     IN last' = Call("extract_row_to_flightinfo",
                     [name |-> name, row |-> row, origin |-> origin,
                      destination |-> destination, date |-> date, early |-> early],
                     FALSE,
                     Outcome(r.kind, IF r.kind = "ok" THEN <<r.val>> ELSE <<>>, r.exc,
                             <<>>, <<>>),
                     <<>>, <<>>)
  /\ UNCHANGED <<loaded, world>>
  /\ UNCHANGED registryVars
  /\ UNCHANGED cacheVars
  /\ UNCHANGED threadVars

\* Weekender(config): instantiates the registry, then reads its two bounds
NewWeekender(config) ==
  /\ loaded = Len(ClassStatements)
  /\ Len(weekenders) < MaxWeekenders
  /\ IF done
     THEN UNCHANGED <<airlines, done, constructed>>
     ELSE /\ airlines' = NewAirlines(config, constructed)
          /\ constructed' = constructed + Len(classes)
          /\ done' = TRUE
  /\ weekenders' = Append(weekenders,
                          [config |-> config,
                           leave_after |-> ConfigLeaveAfter(config),
                           leave_before |-> ConfigLeaveBefore(config)])
  /\ last' = Call("Weekender", [config |-> config, wasDone |-> done], FALSE,
                  Outcome("ok", <<>>, "-", <<>>, <<>>), <<>>, <<>>)
  /\ UNCHANGED <<loaded, classes, world, cache, now>>
  /\ UNCHANGED threadVars

\* weekenders[wid].request_with_next(date [, reverse]) through the ttl_cache
\* wrapper: a live entry answers the call, otherwise the body runs and its
\* result is stored; an exception of the body leaves the cache as it is
RequestWithNext(wid, date, form, reverse, failAt) ==
  /\ wid \in 1..Len(weekenders)
  /\ form = "omitted" => ~reverse
  /\ LET key == CacheKey(wid, date, form, reverse)
         args == [wid |-> wid, date |-> date, form |-> form, reverse |-> reverse,
                  key |-> key, at |-> now, failAt |-> failAt]
         i == CacheFind(cache, key, now)
     IN IF i # 0
        THEN /\ cache' = CacheTouch(cache, i)
             /\ last' = Call("request_with_next", args, TRUE,
                             Outcome("ok", cache[i].value, "-", <<>>, <<>>), <<>>, <<>>)
        ELSE \E r \in {request_with_next(weekenders[wid], airlines, date, reverse,
                                          world, failAt)} :
               /\ cache' = IF r.kind = "raise" THEN cache
                           ELSE CacheSet(cache, key, r.val, now)
               /\ last' = Call("request_with_next", args, FALSE,
                               Outcome(r.kind, r.val, r.exc, r.calls, r.acalls),
                               r.raw1, r.raw2)
  /\ UNCHANGED <<loaded, world, weekenders, now>>
  /\ UNCHANGED registryVars
  /\ UNCHANGED threadVars

\* the cache's timer advances
Tick ==
  /\ loaded = Len(ClassStatements)
  /\ now < MaxClock
  /\ now' = now + 1
  /\ last' = NoCall
  /\ UNCHANGED <<loaded, world, weekenders, cache>>
  /\ UNCHANGED registryVars
  /\ UNCHANGED threadVars

\* ------------------------------------- instantiate called from several threads
\* thread t calls AirlineRegistry.instantiate(config)
T_Call(t, config) ==
  /\ tpc[t] = "idle"
  /\ tcalls[t] < MaxCalls
  /\ tpc' = [tpc EXCEPT ![t] = "check"]
  /\ tconfig' = [tconfig EXCEPT ![t] = config]
  /\ tcalls' = [tcalls EXCEPT ![t] = @ + 1]
  /\ UNCHANGED <<loaded, world, last, tlist>>
  /\ UNCHANGED registryVars
  /\ UNCHANGED cacheVars

\* if cls.done: return
T_Check(t) ==
  /\ tpc[t] = "check"
  /\ tpc' = [tpc EXCEPT ![t] = IF done THEN "idle" ELSE "build"]
  /\ tlist' = [tlist EXCEPT ![t] = <<>>]
  /\ UNCHANGED <<loaded, world, last, tconfig, tcalls>>
  /\ UNCHANGED registryVars
  /\ UNCHANGED cacheVars

\* one iteration of the comprehension: airline(config) for the next class
T_Construct(t) ==
  /\ tpc[t] = "build"
  /\ Len(tlist[t]) < Len(classes)
  /\ tlist' = [tlist EXCEPT ![t] =
                 Append(@, Airline(classes[Len(@) + 1], tconfig[t], constructed + 1))]
  /\ constructed' = constructed + 1
  /\ UNCHANGED <<loaded, world, last, tpc, tconfig, tcalls>>
  /\ UNCHANGED <<classes, airlines, done>>
  /\ UNCHANGED cacheVars

\* cls.airlines = [...]
T_Store(t) ==
  /\ tpc[t] = "build"
  /\ Len(tlist[t]) = Len(classes)
  /\ airlines' = tlist[t]
  /\ tpc' = [tpc EXCEPT ![t] = "flag"]
  /\ UNCHANGED <<loaded, world, last, tconfig, tlist, tcalls>>
  /\ UNCHANGED <<classes, done, constructed>>
  /\ UNCHANGED cacheVars

\* cls.done = True
T_SetDone(t) ==
  /\ tpc[t] = "flag"
  /\ done' = TRUE
  /\ tpc' = [tpc EXCEPT ![t] = "idle"]
  /\ UNCHANGED <<loaded, world, last, tconfig, tlist, tcalls>>
  /\ UNCHANGED <<classes, airlines, constructed>>
  /\ UNCHANGED cacheVars

\* ----------------------------------------------------------- specifications
AdapterNames == {"Southwest", "JetBlue", "United"}

\* the state once the module is imported: the classes are registered and
\* nothing is instantiated
InitImported ==
  /\ loaded = Len(ClassStatements)
  /\ classes = <<"Southwest", "JetBlue", "United">>
  /\ InitCommon

\* the import of the module and the calls on the registry and the adapters
Next ==
  \/ DefineClass
  \/ \E config \in Configs : Instantiate(config)
  \/ \E w \in Worlds : WorldChange(w)
  \/ \E date \in Dates, reverse \in BOOLEAN, early \in BOOLEAN, failAt \in FailPoints :
       RegistryRequestAll(date, reverse, early, failAt)
  \/ \E pair \in AirportPairs, date \in Dates :
       RegistryRequestSingle(pair[1], pair[2], date)
  \/ \E i \in 1..Len(ClassStatements), date \in Dates, reverse \in BOOLEAN,
        early \in BOOLEAN, failAt \in FailPoints :
       AirlineRequestAll(i, date, reverse, early, failAt)

Spec == Init /\ [][Next]_vars

\* row extraction applied to every row of the model
NextRows ==
  \E name \in AdapterNames, row \in Rows, pair \in AirportPairs, date \in Dates,
     early \in BOOLEAN :
    ExtractRow(name, row, pair[1], pair[2], date, early)

SpecRows == InitImported /\ [][NextRows]_vars

\* the Weekender objects and their cached queries
NextWeekender ==
  \/ \E config \in Configs : NewWeekender(config)
  \/ \E w \in Worlds : WorldChange(w)
  \/ Tick
  \/ \E wid \in 1..MaxWeekenders, date \in Dates, form \in CallForms,
        reverse \in BOOLEAN, failAt \in FailPoints :
       RequestWithNext(wid, date, form, reverse, failAt)

SpecWeekender == InitImported /\ [][NextWeekender]_vars

\* threads that call instantiate concurrently
NextThreads ==
  \E t \in Threads :
    \/ \E config \in Configs : T_Call(t, config)
    \/ T_Check(t)
    \/ T_Construct(t)
    \/ T_Store(t)
    \/ T_SetDone(t)

SpecThreads == InitImported /\ [][NextThreads]_vars

\* ------------------------------------------------------------------ claims
Minutes(t) == 60 * t[1] + t[2]
PairCount(a) ==
  Len(ConfigOrigins(a.config, a.cls)) * Len(ConfigDestinations(a.config, a.cls))
RECURSIVE SumPairs(_)
SumPairs(as) == IF as = <<>> THEN 0 ELSE PairCount(Head(as)) + SumPairs(Tail(as))
RECURSIVE SumReturned(_)
SumReturned(cs) == IF cs = <<>> THEN 0 ELSE Len(Head(cs).returned) + SumReturned(Tail(cs))
Returned(cs) == [k \in 1..Len(cs) |-> cs[k].returned]
KeyReverse(key) == IF Len(key) = 2 THEN FALSE ELSE key[4]

\* C1: a request_with_next(date, reverse=False) whose body runs returns the
\* registry's records for date that depart strictly after leave_after, in
\* their order, followed by the registry's records for date + 1 that depart
\* strictly before leave_before, in their order.
C1_FilterConcat ==
  (last.op = "request_with_next" /\ ~last.hit /\ last.kind = "ok" /\ ~last.args.reverse) =>
    LET w == weekenders[last.args.wid]
        day == registry_request_all(airlines, last.args.date, FALSE, FALSE, world, 0, 0).val
        day_after == registry_request_all(airlines, last.args.date + 1, FALSE, TRUE,
                                          world, 0, 0).val
    IN /\ last.raw1 = day
       /\ last.raw2 = day_after
       /\ last.val =
            SelectSeq(day, LAMBDA fi : Minutes(fi.depart_time) > Minutes(w.leave_after))
            \o SelectSeq(day_after,
                         LAMBDA fi : Minutes(fi.depart_time) < Minutes(w.leave_before))

\* C1 witness: with leave_after = 17:00 the registry returned departures at
\* 16:00, 17:00 and 18:30 for the day and one at leave_before for the day
\* after; 18:30 is in the result, 16:00 and 17:00 are not.
C1_Witness ==
  /\ last.op = "request_with_next" /\ ~last.hit /\ last.kind = "ok" /\ ~last.args.reverse
  /\ weekenders[last.args.wid].leave_after = <<17, 0>>
  /\ \E i \in 1..Len(last.raw1) : last.raw1[i].depart_time = <<16, 0>>
  /\ \E i \in 1..Len(last.raw1) : last.raw1[i].depart_time = <<17, 0>>
  /\ \E i \in 1..Len(last.raw2) :
       last.raw2[i].depart_time = weekenders[last.args.wid].leave_before
  /\ \E j \in 1..Len(last.val) : last.val[j].depart_time = <<18, 30>>
  /\ \A j \in 1..Len(last.val) : last.val[j].depart_time \notin {<<16, 0>>, <<17, 0>>}
  /\ \E j \in 1..Len(last.val) : last.val[j] \notin {last.raw1[i] : i \in 1..Len(last.raw1)}

\* C2 as stated: a request_with_next call made while an unexpired entry of an
\* earlier completed call with the same Weekender, date and reverse exists is
\* answered from the cache, without any adapter request.
C2_Original ==
  [][last'.op = "request_with_next" =>
       ((\E i \in 1..Len(cache) :
            /\ cache[i].key[1] = last'.args.wid
            /\ cache[i].key[2] = last'.args.date
            /\ KeyReverse(cache[i].key) = last'.args.reverse
            /\ now < cache[i].expires)
        => (last'.hit /\ last'.calls = <<>>))]_vars

\* C2 amended: a request_with_next call on the same Weekender that passes the
\* same arguments in the same way as an earlier completed call is answered
\* with that call's result, without any adapter request, as long as the entry
\* is neither expired nor evicted; a call that finds no unexpired entry of its
\* key runs the body, which queries every adapter for both days, and stores
\* the result for one time-to-live.
C2_CacheTTL ==
  [][last'.op = "request_with_next" =>
       IF \E i \in 1..Len(cache) : cache[i].key = last'.args.key /\ now < cache[i].expires
       THEN /\ last'.hit /\ last'.kind = "ok" /\ last'.calls = <<>>
            /\ \E i \in 1..Len(cache) :
                 /\ cache[i].key = last'.args.key
                 /\ now < cache[i].expires
                 /\ last'.val = cache[i].value
                 /\ cache'[Len(cache')] = cache[i]
       ELSE /\ ~last'.hit
            /\ last'.kind = "ok" =>
                 /\ Len(last'.calls) = 2 * SumPairs(airlines)
                 /\ Len(last'.calls) > 0
                 /\ cache'[Len(cache')] =
                      [key |-> last'.args.key, value |-> last'.val,
                       expires |-> now + CacheTTL]]_vars

\* C2 witness: a call answered from the cache at a later tick than the one at
\* which the entry was stored, after the provider sites changed.
C2_Witness ==
  /\ last.op = "request_with_next" /\ last.hit
  /\ cache[Len(cache)].key = last.args.key
  /\ last.args.at > cache[Len(cache)].expires - CacheTTL
  /\ last.val # request_with_next(weekenders[last.args.wid], airlines, last.args.date,
                                  last.args.reverse, world, 0).val

\* C3: once instantiate has completed, a later instantiate call, whatever its
\* config, constructs no adapter and leaves the adapter list as it is.
C3_InstantiateIdempotent ==
  [][done => (airlines' = airlines /\ constructed' = constructed /\ done')]_vars

\* C3 witness: instantiate was called when the registry was already
\* instantiated, with a config other than the one the adapters hold.
C3_Witness ==
  /\ last.op = "instantiate" /\ last.args.wasDone
  /\ Len(airlines) = 3
  /\ \A i \in 1..Len(airlines) : airlines[i].config # last.args.config

\* C4: an adapter's request_all that returns has issued one request_single
\* per pair of the cartesian product, origins outermost (destinations
\* outermost and passed as the query origin when reverse is set), each with
\* the date and the early flag, and returns the concatenation of what the
\* calls returned, in that order.
C4_CartesianProduct ==
  (last.op = "airline.request_all" /\ last.kind = "ok") =>
    LET a == last.args.airline
        origins == ConfigOrigins(a.config, a.cls)
        destinations == ConfigDestinations(a.config, a.cls)
        N == Len(origins)
        M == Len(destinations)
    IN /\ Len(last.calls) = N * M
       /\ \A k \in 1..Len(last.calls) :
            /\ last.calls[k].id = a.id
            /\ last.calls[k].date = last.args.date
            /\ last.calls[k].early = last.args.early
            /\ IF last.args.reverse
               THEN /\ last.calls[k].origin = destinations[((k - 1) \div N) + 1]
                    /\ last.calls[k].destination = origins[((k - 1) % N) + 1]
               ELSE /\ last.calls[k].origin = origins[((k - 1) \div M) + 1]
                    /\ last.calls[k].destination = destinations[((k - 1) % M) + 1]
       /\ last.val = flatten(Returned(last.calls))
       /\ Len(last.val) = SumReturned(last.calls)

\* C4 witness: a reverse request_all of an adapter with two origins and two
\* destinations returned records of more than one pair.
C4_Witness ==
  /\ last.op = "airline.request_all" /\ last.kind = "ok" /\ last.args.reverse
  /\ Len(ConfigOrigins(last.args.airline.config, last.args.airline.cls)) = 2
  /\ Len(ConfigDestinations(last.args.airline.config, last.args.airline.cls)) = 2
  /\ Len(last.calls) = 4
  /\ last.calls[2].returned # <<>>
  /\ last.calls[3].returned # <<>>
  /\ last.calls[2].origin = last.calls[1].origin
  /\ last.calls[2].destination # last.calls[1].destination

\* a row that lacks a fare, per adapter: the fare column or element is
\* missing, or its text is empty or holds no amount
RowLacksFare(name, row) ==
  CASE name = "Southwest" ->
         \/ row.cols < 8
         \/ \A i \in 1..Len(row.fare) : row.fare[i] \notin Digits
    [] name = "JetBlue" -> \A i \in 1..Len(row.fare) : row.fare[i] \notin Digits
    [] name = "United" -> ~row.button \/ \A i \in 1..Len(row.fare) : row.fare[i] \notin Digits

\* C5 as stated: for a row that lacks a fare, extract_row_to_flightinfo of
\* every adapter returns None, neither a record nor an error.
C5_FarelessRowIsNone ==
  (last.op = "extract_row_to_flightinfo" /\ RowLacksFare(last.args.name, last.args.row))
    => last.kind = "none"

\* C6 as stated: after instantiate, AirlineRegistry.request_single completes
\* without error when every adapter's exchange and extraction succeed.
C6_RequestSingleCompletes ==
  (last.op = "registry.request_single" /\ done /\ world # "bad") => last.kind = "ok"

\* C7: the concrete adapter classes, and not AirlineBase, are registered once
\* each in definition order as their class statements run; instantiate builds
\* one instance per registered class in that order; the registry's
\* request_all calls request_all of every instance once, in that order, and
\* returns the concatenation of what they returned, each part as its adapter
\* returned it.
C7_RegistrationOrder ==
  /\ classes = [i \in 1..(IF loaded = 0 THEN 0 ELSE loaded - 1) |-> ClassStatements[i + 1].name]
  /\ \A i \in 1..Len(classes) : classes[i] # "AirlineBase"
  /\ \A i, j \in 1..Len(classes) : classes[i] = classes[j] => i = j
  /\ done =>
       /\ Len(airlines) = Len(classes)
       /\ constructed = Len(classes)
       /\ \A i \in 1..Len(airlines) : airlines[i].cls = classes[i] /\ airlines[i].id = i
  /\ (last.op = "registry.request_all" /\ last.kind = "ok") =>
       /\ Len(last.acalls) = Len(airlines)
       /\ \A k \in 1..Len(last.acalls) :
            /\ last.acalls[k].id = airlines[k].id
            /\ last.acalls[k].returned =
                 airline_request_all(airlines[k], last.args.date, last.args.reverse,
                                     last.args.early, world, 0, 0).val
       /\ last.val = flatten(Returned(last.acalls))

\* C7 witness: a registry request_all over the three instances in which the
\* first and the last adapter both returned records, the first adapter's
\* records not being in departure-time order.
C7_Witness ==
  /\ last.op = "registry.request_all" /\ last.kind = "ok"
  /\ Len(last.acalls) = 3
  /\ last.acalls[1].returned # <<>>
  /\ last.acalls[3].returned # <<>>
  /\ \E i \in 1..(Len(last.val) - 1) :
       Minutes(last.val[i].depart_time) > Minutes(last.val[i + 1].depart_time)

\* C8 as stated: under every interleaving of concurrent instantiate calls the
\* registered classes are constructed at most once in total.
C8_ConstructedOnce == constructed <= Len(classes)

\* C9 as stated: a FlightInfo produced for (origin, destination, date, early)
\* has depart_date equal to the date and early equal to the flag.
C9_DateAndEarlyFields ==
  (last.op = "extract_row_to_flightinfo" /\ last.kind = "ok") =>
    /\ last.val[1].depart_date = PyDate(last.args.date)
    /\ last.val[1].early = PyBool(last.args.early)

\* C10: a request_with_next whose body meets an error at any adapter or pair
\* ends with that error: it returns nothing, no request is made after the
\* failing one, no adapter after the failing one is called, and no entry of
\* its key is in the cache afterwards.
C10_AbortOnError ==
  (last.op = "request_with_next" /\ ~last.hit) =>
    /\ (last.args.failAt \in 1..(2 * SumPairs(airlines)) \/ world = "bad")
         => last.kind = "raise"
    /\ last.kind = "raise" =>
         /\ last.val = <<>>
         /\ last.calls # <<>> /\ last.acalls # <<>>
         /\ \A k \in 1..Len(last.calls) :
              (last.calls[k].kind = "raise") <=> (k = Len(last.calls))
         /\ \A k \in 1..Len(last.acalls) :
              /\ (last.acalls[k].kind = "raise") <=> (k = Len(last.acalls))
              /\ last.acalls[k].id = airlines[((k - 1) % Len(airlines)) + 1].id
         /\ last.calls[Len(last.calls)].id = last.acalls[Len(last.acalls)].id
         /\ last.args.failAt \in 1..(2 * SumPairs(airlines))
              => Len(last.calls) <= last.args.failAt
         /\ ~\E i \in 1..Len(cache) :
              cache[i].key = last.args.key /\ now < cache[i].expires

\* C10 witness: the second adapter failed after the first had returned
\* records; nothing was returned and the third adapter was not called.
C10_Witness ==
  /\ last.op = "request_with_next" /\ ~last.hit /\ last.kind = "raise"
  /\ Len(airlines) = 3
  /\ Len(last.acalls) = 2
  /\ last.acalls[1].returned # <<>>
  /\ last.val = <<>>

====
